---- MODULE Spec2Model ----
(***************************************************************************)
(* A model of src/model.py: the SimpleNet encoder/decoder network and the  *)
(* blocks it is built from.                                                *)
(*                                                                         *)
(* Tensors live in a heap and are referred to by identity, so that the     *)
(* in-place operations of the source (ReLU(inplace=True), x += branch) can *)
(* be told from the operations that allocate their result.  A tensor is    *)
(* its shape (B, C, H, W) and the value v of one representative element.   *)
(* A convolution acts on the shape by the kernel/stride/padding arithmetic *)
(* and on the value as the affine map of its weight and bias; values are   *)
(* floating-point numbers: finite ones up to FMax, the two infinities and  *)
(* NaN.                                                                    *)
(***************************************************************************)
EXTENDS Integers, Sequences, FiniteSets, TLC

\* Bounds of the model: batch, channel, height and width of the inputs
\* drawn in Init, and FMax, which stands for the largest finite value of the
\* tensors' floating-point type: a result beyond it is an infinity.
MaxB == 2
MaxC == 5
MaxH == 32
MaxW == 16
FMax == 1000000

VARIABLES
  net,   \* the constructed module: its kind and learnable parameters
  heap,  \* live tensors: identity -> [B, C, H, W, v]
  next,  \* the identity the next allocated tensor gets
  env,   \* local variables of the running forward: name -> identity (0: unbound)
  pc,    \* position in the running forward
  err,   \* "" or the place where the forward raised
  log    \* the block applications so far, in order

vars == <<net, heap, next, env, pc, err, log>>

----------------------------------------------------------------------------
\* Floating-point values.

PInf == FMax + 1
NInf == 0 - (FMax + 1)
NaN == FMax + 2

IsNaN(a) == a = NaN
IsInf(a) == a = PInf \/ a = NInf
IsFinite(a) == ~IsNaN(a) /\ ~IsInf(a)

\* A finite result out of range overflows to an infinity.
Round(x) == IF x > FMax THEN PInf ELSE IF x < 0 - FMax THEN NInf ELSE x

FAdd(a, b) ==
  IF IsNaN(a) \/ IsNaN(b) THEN NaN
  ELSE IF IsInf(a) THEN (IF IsInf(b) /\ b # a THEN NaN ELSE a)
  ELSE IF IsInf(b) THEN b
  ELSE Round(a + b)

FMul(a, b) ==
  IF IsNaN(a) \/ IsNaN(b) THEN NaN
  ELSE IF IsInf(a) \/ IsInf(b)
       THEN (IF a = 0 \/ b = 0 THEN NaN
             ELSE IF (a > 0) = (b > 0) THEN PInf ELSE NInf)
  ELSE Round(a * b)

FRelu(a) == IF IsNaN(a) THEN NaN ELSE IF a < 0 THEN 0 ELSE a

\* Element comparison (==): NaN equals nothing.
FEq(a, b) == ~IsNaN(a) /\ ~IsNaN(b) /\ a = b

----------------------------------------------------------------------------
\* Construction (the __init__ methods).  P is the parameter set [w, b] the
\* layers of a block are given.

Conv2d(in_channels, out_channels, kernel_size, stride, padding, groups, bias, P) ==
  [cin |-> in_channels, cout |-> out_channels, k |-> kernel_size, s |-> stride,
   p |-> padding, groups |-> groups, w |-> P.w, b |-> IF bias THEN P.b ELSE 0]

ConvTranspose2d(in_channels, out_channels, kernel_size, stride, P) ==
  [cin |-> in_channels, cout |-> out_channels, k |-> kernel_size, s |-> stride,
   p |-> 0, w |-> P.w, b |-> P.b]

DepthwiseConv(in_channels, kernel_size, stride, padding, P) ==
  Conv2d(in_channels, in_channels, kernel_size, stride, padding, in_channels, FALSE, P)

PointwiseConv(in_channels, out_channels, P) ==
  Conv2d(in_channels, out_channels, 1, 1, 0, 1, TRUE, P)

CovSepBlock(in_channels, out_channels, kernel_size, stride, padding, P) ==
  [dc |-> DepthwiseConv(in_channels, kernel_size, stride, padding, P),
   pc |-> PointwiseConv(in_channels, out_channels, P)]

\* proj is <<>> for None.  owner names the object the Encoder is an attribute of.
Encoder(in_channels, out_channels, P, owner) ==
  [sepconv  |-> CovSepBlock(in_channels, out_channels \div 4, 5, 1, 2, P),
   sepconv2 |-> CovSepBlock(out_channels \div 4, out_channels, 5, 1, 2, P),
   proj     |-> IF in_channels # out_channels
                THEN <<CovSepBlock(in_channels, out_channels, 3, 1, 1, P)>>
                ELSE <<>>,
   inst     |-> [owner |-> owner, idx |-> 0]]

UpsamplingKernel3(in_channels, out_channels, P) ==
  [upsample |-> ConvTranspose2d(in_channels, out_channels, 3, 2, P)]

Upsampling(in_channels, out_channels, P) ==
  [upsample |-> ConvTranspose2d(in_channels, out_channels, 2, 2, P)]

DownsamplingUnstrided(in_channels, out_channels, P) ==
  [sepconv    |-> CovSepBlock(in_channels, out_channels \div 4, 5, 1, 2, P),
   sepconv2   |-> CovSepBlock(out_channels \div 4, out_channels, 5, 1, 2, P),
   branchconv |-> CovSepBlock(in_channels, out_channels, 3, 2, 1, P)]

Downsampling(in_channels, out_channels, P) ==
  [sepconv    |-> CovSepBlock(in_channels, out_channels \div 4, 5, 2, 2, P),
   sepconv2   |-> CovSepBlock(out_channels \div 4, out_channels, 5, 1, 2, P),
   branchconv |-> CovSepBlock(in_channels, out_channels, 3, 2, 1, P)]

Decoder(in_channels, out_channels, P) ==
  [sepconv  |-> CovSepBlock(in_channels, out_channels, 3, 1, 1, P),
   sepconv2 |-> CovSepBlock(out_channels, out_channels, 3, 1, 1, P)]

EncoderStage(name, in_channels, out_channels, num_encoder, P) ==
  [name         |-> name,
   encoder      |-> Encoder(out_channels, out_channels, P, name),
   downsampling |-> Downsampling(in_channels, out_channels, P),
   num          |-> num_encoder]

DecoderStageSkipWidth(name, in_channels, out_channels, skip_in_channels, P) ==
  [name        |-> name,
   decoder     |-> Decoder(in_channels, in_channels, P),
   upsampling  |-> Upsampling(in_channels, skip_in_channels, P),
   skipconnect |-> CovSepBlock(skip_in_channels, skip_in_channels, 3, 1, 1, P)]

DecoderStage(name, in_channels, out_channels, skip_in_channels, P) ==
  [name        |-> name,
   decoder     |-> Decoder(in_channels, in_channels, P),
   upsampling  |-> Upsampling(in_channels, out_channels, P),
   skipconnect |-> CovSepBlock(skip_in_channels, out_channels, 3, 1, 1, P)]

\* A constructed SimpleNet is its learnable parameters: P, the parameters of
\* every layer before the output head, and Q, those of the output head (its
\* Decoder and its final convolution).  The attributes __init__ builds from
\* them follow, one operator each.
SimpleNet(P, Q) == [kind |-> "SimpleNet", P |-> P, Q |-> Q, cin |-> 4, cout |-> 4]

\* self.conv
StemConv(N) == Conv2d(4, 16, 3, 1, 1, 1, TRUE, N.P)

\* self.encoder_stage1 .. self.encoder_stage4
encoder_stage(N, k) ==
  CASE k = 1 -> EncoderStage("encoder_stage1", 16, 64, 1, N.P)
    [] k = 2 -> EncoderStage("encoder_stage2", 64, 128, 1, N.P)
    [] k = 3 -> EncoderStage("encoder_stage3", 128, 256, 3, N.P)
    [] k = 4 -> EncoderStage("encoder_stage4", 256, 512, 3, N.P)

\* self.decoder_stage1 .. self.decoder_stage4
decoder_stage(N, k) ==
  CASE k = 1 -> DecoderStage("decoder_stage1", 512, 64, 256, N.P)
    [] k = 2 -> DecoderStage("decoder_stage2", 64, 32, 128, N.P)
    [] k = 3 -> DecoderStage("decoder_stage3", 32, 32, 64, N.P)
    [] k = 4 -> DecoderStage("decoder_stage4", 32, 16, 16, N.P)

\* self.output_layer
output_layer(N) == <<Decoder(16, 16, N.Q), Conv2d(16, 4, 3, 1, 1, 1, TRUE, N.Q)>>

----------------------------------------------------------------------------
\* Tensor operations.  A machine m is [heap, next, err, log, r]: the tensors,
\* the next identity, the raised error ("" for none), the applications logged
\* and the identity r of the last result.  Once m.err is set every operation
\* leaves m as it is: the exception propagates.

Raise(m, site) == [m EXCEPT !.err = site]

Alloc(m, t) ==
  [m EXCEPT !.heap = m.heap @@ (m.next :> t), !.next = m.next + 1, !.r = m.next]

Log(m, e) == IF m.err # "" THEN m ELSE [m EXCEPT !.log = Append(m.log, e)]

\* Output size of a convolution along one dimension.
ConvOut(n, k, s, p) == ((n + 2 * p - k) \div s) + 1

ConvTOutLong(n, k, s, p) == (n - 1) * s - 2 * p + k + 1
\* Output size of a transposed convolution along one dimension.
ConvTOut(n, k, s, p) == (n - 1) * s - 2 * p + k

Conv2dForward(m, L, x) ==
  IF m.err # "" THEN m
  ELSE LET t == m.heap[x] IN
       IF t.C # L.cin THEN Raise(m, "Conv2d.channels")
       ELSE IF t.H + 2 * L.p < L.k \/ t.W + 2 * L.p < L.k THEN Raise(m, "Conv2d.size")
       ELSE Alloc(m, [B |-> t.B, C |-> L.cout,
                      H |-> ConvOut(t.H, L.k, L.s, L.p),
                      W |-> ConvOut(t.W, L.k, L.s, L.p),
                      v |-> FAdd(FMul(L.w, t.v), L.b)])

ConvTranspose2dForward(m, L, x) ==
  IF m.err # "" THEN m
  ELSE LET t == m.heap[x] IN
       IF t.C # L.cin THEN Raise(m, "ConvTranspose2d.channels")
       ELSE Alloc(m, [B |-> t.B, C |-> L.cout,
                      H |-> ConvTOut(t.H, L.k, L.s, L.p),
                      W |-> ConvTOut(t.W, L.k, L.s, L.p),
                      v |-> FAdd(FMul(L.w, t.v), L.b)])

\* ReLU(inplace=True): overwrites x and returns it.
ReLUInplace(m, x) ==
  IF m.err # "" THEN m
  ELSE [m EXCEPT !.heap[x].v = FRelu(@), !.r = x]

BDimStrict(a, b) == IF a = b THEN a ELSE 0
\* Broadcasting of one dimension: equal sizes, or one of them 1; 0 when the
\* sizes are incompatible.
BDim(a, b) == IF a = b THEN a ELSE IF a = 1 THEN b ELSE IF b = 1 THEN a ELSE 0

BroadcastShape(s, t) ==
  [B |-> BDim(s.B, t.B), C |-> BDim(s.C, t.C), H |-> BDim(s.H, t.H), W |-> BDim(s.W, t.W)]

Compatible(s, t) ==
  LET u == BroadcastShape(s, t) IN u.B # 0 /\ u.C # 0 /\ u.H # 0 /\ u.W # 0

\* a + b: a new tensor of the broadcast shape; raises at site when the shapes
\* are incompatible.
Add(m, a, b, site) ==
  IF m.err # "" THEN m
  ELSE LET s == m.heap[a]
           t == m.heap[b]
           u == BroadcastShape(s, t)
       IN IF ~Compatible(s, t) THEN Raise(m, site)
          ELSE Alloc(m, [B |-> u.B, C |-> u.C, H |-> u.H, W |-> u.W, v |-> FAdd(s.v, t.v)])

\* a += b: overwrites a; the broadcast shape must be a's own.
IAdd(m, a, b, site) ==
  IF m.err # "" THEN m
  ELSE LET s == m.heap[a]
           t == m.heap[b]
           u == BroadcastShape(s, t)
       IN IF ~Compatible(s, t) \/ u.B # s.B \/ u.C # s.C \/ u.H # s.H \/ u.W # s.W
          THEN Raise(m, site)
          ELSE [m EXCEPT !.heap[a].v = FAdd(s.v, t.v), !.r = a]

----------------------------------------------------------------------------
\* The forward methods.

CovSepBlockForward(m, blk, x) ==
  LET m1 == Conv2dForward(m, blk.dc, x)
  IN Conv2dForward(m1, blk.pc, m1.r)

EncoderForward(m, E, x) ==
  LET mb == IF Len(E.proj) > 0 THEN CovSepBlockForward(m, E.proj[1], x)
            ELSE [m EXCEPT !.r = x]
      branch == mb.r
      m1 == CovSepBlockForward(mb, E.sepconv, x)
      m2 == ReLUInplace(m1, m1.r)
      m3 == CovSepBlockForward(m2, E.sepconv2, m2.r)
      m4 == IAdd(m3, m3.r, branch, "Encoder.add")
  IN ReLUInplace(m4, m4.r)

UpsamplingForward(m, U, x) == ConvTranspose2dForward(m, U.upsample, x)

\* The log entry holds the spatial sizes of the two addends.
DownsamplingForward(m, D, x) ==
  LET branch == x
      m1 == CovSepBlockForward(m, D.sepconv, x)
      m2 == ReLUInplace(m1, m1.r)
      m3 == CovSepBlockForward(m2, D.sepconv2, m2.r)
      m4 == CovSepBlockForward(m3, D.branchconv, branch)
      m5 == IF m4.err # "" THEN m4
            ELSE Log(m4, [block |-> "Downsampling", owner |-> "", idx |-> 0,
                          args |-> <<m4.heap[m3.r].H, m4.heap[m3.r].W,
                                     m4.heap[m4.r].H, m4.heap[m4.r].W>>])
  IN Add(m5, m3.r, m4.r, "Downsampling.add")

DecoderForward(m, D, x) ==
  LET branch == x
      m1 == CovSepBlockForward(m, D.sepconv, x)
      m2 == ReLUInplace(m1, m1.r)
      m3 == CovSepBlockForward(m2, D.sepconv2, m2.r)
  IN Add(m3, m3.r, branch, "Decoder.add")

EncoderAtFresh(S, i) == [S.encoder EXCEPT !.inst.idx = i]
\* The Encoder object the i-th iteration of EncoderStage.forward applies.
EncoderAt(S, i) == S.encoder

RECURSIVE EncoderLoop(_, _, _)
\* The iterations of "for _ in range(self.num)" from the i-th on, applied to
\* the last result m.r.  Each application is logged with the object applied.
EncoderLoop(m, S, i) ==
  IF i > S.num \/ m.err # "" THEN m
  ELSE LET E == EncoderAt(S, i)
           m1 == Log(m, [block |-> "Encoder", owner |-> E.inst.owner,
                         idx |-> E.inst.idx, args |-> <<i, m.r>>])
       IN EncoderLoop(EncoderForward(m1, E, m.r), S, i + 1)

EncoderStageForward(m, S, x) ==
  EncoderLoop(DownsamplingForward(m, S.downsampling, x), S, 1)

\* The log entry holds the identities of the (input, skip) pair received.
DecoderStageForward(m, S, input, skip) ==
  LET m0 == Log(m, [block |-> "DecoderStage", owner |-> S.name, idx |-> 0,
                    args |-> <<input, skip>>])
      m1 == DecoderForward(m0, S.decoder, input)
      m2 == UpsamplingForward(m1, S.upsampling, m1.r)
      m3 == CovSepBlockForward(m2, S.skipconnect, skip)
      m4 == ReLUInplace(m3, m3.r)
  IN Add(m4, m2.r, m4.r, "DecoderStage.add")

\* M.Sequential(Decoder, Conv2d)
OutputLayerForward(m, L, x) ==
  LET m1 == DecoderForward(m, L[1], x)
  IN Conv2dForward(m1, L[2], m1.r)

StemReluInput(m, N, img) ==
  LET m1 == ReLUInplace(m, img)
  IN Conv2dForward(m1, StemConv(N), img)
\* pre = self.conv(img); pre = self.relu(pre)
Stem(m, N, img) ==
  LET m1 == Conv2dForward(m, StemConv(N), img)
  IN ReLUInplace(m1, m1.r)

ResidualDropped(m, output, img) == [m EXCEPT !.r = output]
\* return output + img
Residual(m, output, img) == Add(m, output, img, "forward.add")

----------------------------------------------------------------------------
\* The state machine.

Names == {"img", "pre", "first", "second", "third", "fourth", "de_first",
          "de_second", "de_thrid", "de_fourth", "output", "result", "x", "d", "y"}

\* Inputs and parameters drawn in Init.
ImgVals == {-1, 1}
BodyParams == {[w |-> 1, b |-> 0], [w |-> 2, b |-> 1]}
HeadParams == [w : {0, 1}, b : {0, 1}]
BlockOut == {4, 6}

\* Stand-alone blocks over an input of cin channels, for the properties of
\* single blocks: the parameters, and the blocks built from them.
Blocks(cin, cout, P) == [kind |-> "Blocks", P |-> P, Q |-> P, cin |-> cin, cout |-> cout]

BlockDownsampling(N) == Downsampling(N.cin, N.cout, N.P)
BlockUpsamplingX(N) == Upsampling(N.cin, N.cout, N.P)
BlockUpsamplingD(N) == Upsampling(N.cout, N.cin, N.P)
BlockEncoder(N) == Encoder(N.cin, N.cout, N.P, "blocks")
BlockDecoder(N) == Decoder(N.cout, N.cout, N.P)
BlockDecoderStage(N) == DecoderStage("blocks", N.cout, N.cin, N.cin, N.P)

Bind(name, id) == [n \in Names |-> IF n = name THEN id ELSE 0]

InitForward ==
  \E b \in 1..MaxB, c \in 1..MaxC, h \in 1..MaxH, w \in 1..MaxW,
     v \in ImgVals, P \in BodyParams, Q \in HeadParams :
    /\ net = SimpleNet(P, Q)
    /\ heap = (1 :> [B |-> b, C |-> c, H |-> h, W |-> w, v |-> v])
    /\ env = Bind("img", 1)
    /\ pc = "entry"

InitBlocks ==
  \E b \in 1..MaxB, c \in 1..MaxC, h \in 1..MaxH, w \in 1..MaxW,
     v \in ImgVals, co \in BlockOut :
    /\ net = Blocks(c, co, [w |-> 1, b |-> 0])
    /\ heap = (1 :> [B |-> b, C |-> c, H |-> h, W |-> w, v |-> v])
    /\ env = Bind("x", 1)
    /\ pc = "blk_start"

Init ==
  /\ (InitForward \/ InitBlocks)
  /\ next = 2
  /\ err = ""
  /\ log = <<>>

\* The machine a statement starts from.
Mach == [heap |-> heap, next |-> next, err |-> "", log |-> log, r |-> 0]

\* Tensors no local variable refers to are released.
Release(h, e) == [i \in {j \in DOMAIN h : \E n \in DOMAIN e : e[n] = j} |-> h[i]]

\* The end of a statement "var = <m>; assert var.shape[1] == chan" (chan = 0:
\* no assertion follows): an exception raised inside leaves var unbound.
Finish(m, var, chan, site, nextpc) ==
  /\ net' = net
  /\ next' = m.next
  /\ log' = m.log
  /\ IF m.err # ""
     THEN env' = env /\ err' = m.err /\ pc' = "failed"
     ELSE /\ env' = [env EXCEPT ![var] = m.r]
          /\ IF chan = 0 \/ m.heap[m.r].C = chan
             THEN err' = "" /\ pc' = nextpc
             ELSE err' = site /\ pc' = "failed"
  /\ heap' = Release(m.heap, env')

EntryAssertOff(t) == TRUE
\* assert img.shape[1] == 4
EntryAssert(t) == t.C = 4

Entry ==
  /\ pc = "entry"
  /\ IF EntryAssert(heap[env["img"]])
     THEN pc' = "stem" /\ err' = ""
     ELSE pc' = "failed" /\ err' = "assert_img"
  /\ UNCHANGED <<net, heap, next, env, log>>

StemStep ==
  /\ pc = "stem"
  /\ Finish(Stem(Mach, net, env["img"]), "pre", 16, "assert_pre", "enc1")

\* Encoder stage k of SimpleNet.forward: <<input, output, asserted channels,
\* assertion, next position>>.
EncoderWiring(k) ==
  CASE k = 1 -> <<"pre", "first", 64, "assert_first", "enc2">>
    [] k = 2 -> <<"first", "second", 128, "assert_second", "enc3">>
    [] k = 3 -> <<"second", "third", 256, "assert_third", "enc4">>
    [] k = 4 -> <<"third", "fourth", 512, "assert_fourth", "dec1">>

EncoderStageStep(k) ==
  LET wr == EncoderWiring(k) IN
  /\ pc = <<"enc1", "enc2", "enc3", "enc4">>[k]
  /\ Finish(EncoderStageForward(Mach, encoder_stage(net, k), env[wr[1]]),
            wr[2], wr[3], wr[4], wr[5])

DecoderArgsShifted(k) ==
  CASE k = 1 -> <<"fourth", "third">>
    [] k = 2 -> <<"de_first", "first">>
    [] k = 3 -> <<"de_second", "second">>
    [] k = 4 -> <<"de_thrid", "pre">>
\* The (input, skip) pair decoder stage k is called with.
DecoderArgs(k) ==
  CASE k = 1 -> <<"fourth", "third">>
    [] k = 2 -> <<"de_first", "second">>
    [] k = 3 -> <<"de_second", "first">>
    [] k = 4 -> <<"de_thrid", "pre">>

\* Decoder stage k of SimpleNet.forward: <<output, asserted channels,
\* assertion, next position>>.
DecoderWiring(k) ==
  CASE k = 1 -> <<"de_first", 64, "assert_de_first", "dec2">>
    [] k = 2 -> <<"de_second", 32, "assert_de_second", "dec3">>
    [] k = 3 -> <<"de_thrid", 32, "assert_de_thrid", "dec4">>
    [] k = 4 -> <<"de_fourth", 16, "assert_de_fourth", "head">>

DecoderStageStep(k) ==
  LET wr == DecoderWiring(k)
      a == DecoderArgs(k) IN
  /\ pc = <<"dec1", "dec2", "dec3", "dec4">>[k]
  /\ Finish(DecoderStageForward(Mach, decoder_stage(net, k), env[a[1]], env[a[2]]),
            wr[1], wr[2], wr[3], wr[4])

OutputStep ==
  /\ pc = "head"
  /\ Finish(OutputLayerForward(Mach, output_layer(net), env["de_fourth"]),
            "output", 4, "assert_output", "add")

ResidualStep ==
  /\ pc = "add"
  /\ Finish(Residual(Mach, env["output"], env["img"]), "result", 0, "", "done")

\* Stand-alone applications of the blocks.
DownsamplingCall ==
  /\ pc = "blk_start"
  /\ Finish(DownsamplingForward(Mach, BlockDownsampling(net), env["x"]), "d", 0, "", "blk_down")

UpsamplingCall ==
  \/ /\ pc = "blk_start"
     /\ Finish(UpsamplingForward(Mach, BlockUpsamplingX(net), env["x"]), "y", 0, "", "blk_up")
  \/ /\ pc = "blk_down"
     /\ Finish(UpsamplingForward(Mach, BlockUpsamplingD(net), env["d"]), "y", 0, "", "blk_downup")

EncoderCall ==
  /\ pc = "blk_start"
  /\ Finish(EncoderForward(Mach, BlockEncoder(net), env["x"]), "y", 0, "", "blk_enc")

DecoderCall ==
  /\ pc = "blk_down"
  /\ Finish(DecoderForward(Mach, BlockDecoder(net), env["d"]), "y", 0, "", "blk_dec")

DecoderStageCall ==
  /\ pc = "blk_down"
  /\ Finish(DecoderStageForward(Mach, BlockDecoderStage(net), env["d"], env["x"]),
            "y", 0, "", "blk_stage")

Next ==
  \/ Entry
  \/ StemStep
  \/ \E k \in 1..4 : EncoderStageStep(k)
  \/ \E k \in 1..4 : DecoderStageStep(k)
  \/ OutputStep
  \/ ResidualStep
  \/ DownsamplingCall
  \/ UpsamplingCall
  \/ EncoderCall
  \/ DecoderCall
  \/ DecoderStageCall

Spec == Init /\ [][Next]_vars

----------------------------------------------------------------------------
\* Properties.

Fwd == net.kind = "SimpleNet"
Blk == net.kind = "Blocks"
Bound(n) == env[n] # 0
T(n) == heap[env[n]]
Img == T("img")
Shape(t) == <<t.B, t.C, t.H, t.W>>
Mult16(n) == n % 16 = 0
ValidInput == Fwd /\ Img.C = 4 /\ Mult16(Img.H) /\ Mult16(Img.W)

\* C1: on every input (B, 4, H, W) with H and W positive multiples of 16,
\* SimpleNet.forward raises nowhere and returns a tensor of the input's shape.
C1_ShapePreserved ==
  ValidInput =>
    /\ err = "" /\ pc # "failed"
    /\ pc = "done" => Bound("result") /\ Shape(T("result")) = Shape(Img)

C1_Witness ==
  /\ ValidInput /\ pc = "done" /\ Img.B = 2 /\ Img.H = 32 /\ Img.W = 16
  /\ Shape(T("result")) = <<2, 4, 32, 16>>

Junctions ==
  [pre |-> 16, first |-> 64, second |-> 128, third |-> 256, fourth |-> 512,
   de_first |-> 64, de_second |-> 32, de_thrid |-> 32, de_fourth |-> 16, output |-> 4]

LaterAssertions ==
  {"assert_pre", "assert_first", "assert_second", "assert_third", "assert_fourth",
   "assert_de_first", "assert_de_second", "assert_de_thrid", "assert_de_fourth",
   "assert_output"}

\* C2: in a forward evaluation on a 4-channel input no assertion after the
\* entry assertion fails: the tensor at each junction has 16 channels after
\* the stem, 64/128/256/512 after the encoder stages, 64/32/32/16 after the
\* decoder stages and 4 after the output head.
C2_JunctionChannels ==
  Fwd =>
    /\ err \notin LaterAssertions
    /\ \A n \in DOMAIN Junctions : Bound(n) => T(n).C = Junctions[n]

C2_Witness ==
  /\ Fwd /\ pc = "done" /\ err = ""
  /\ \A n \in DOMAIN Junctions : Bound(n) /\ T(n).C = Junctions[n]

HeadZero == net.Q.w = 0 /\ net.Q.b = 0

\* C3 as amended: with every parameter of the output head zero and every
\* value entering the output head finite, forward(image) equals image.
C3_ResidualIdentityFinite ==
  (ValidInput /\ HeadZero /\ pc = "done" /\ IsFinite(T("de_fourth").v)) =>
    /\ Shape(T("result")) = Shape(Img)
    /\ FEq(T("result").v, Img.v)

C3_Witness ==
  /\ ValidInput /\ HeadZero /\ pc = "done"
  /\ IsFinite(T("de_fourth").v) /\ T("de_fourth").v > 1
  /\ T("output").v = 0
  /\ T("result").v = Img.v

\* C3 as stated: with every parameter of the output head zero, forward(image)
\* equals image whatever the other parameters are.
C3_ResidualIdentityAny ==
  (ValidInput /\ HeadZero /\ pc = "done") =>
    /\ Shape(T("result")) = Shape(Img)
    /\ FEq(T("result").v, Img.v)

Half(n) == (n + 1) \div 2

\* C4: the two paths of Downsampling produce the same spatial size for every
\* H, W >= 1, so their addition never raises; the result has C_out channels
\* and size (ceil(H/2), ceil(W/2)), which is (H/2, W/2) for even H, W.
C4_DownsamplingHalves ==
  /\ err # "Downsampling.add"
  /\ \A i \in 1..Len(log) :
        log[i].block = "Downsampling" =>
          log[i].args[1] = log[i].args[3] /\ log[i].args[2] = log[i].args[4]
  /\ Blk =>
       /\ pc = "failed" => Bound("d")
       /\ pc = "blk_down" => Bound("d")
       /\ Bound("d") =>
            /\ Shape(T("d")) = <<T("x").B, net.cout, Half(T("x").H), Half(T("x").W)>>
            /\ T("x").H % 2 = 0 => 2 * T("d").H = T("x").H
            /\ T("x").W % 2 = 0 => 2 * T("d").W = T("x").W

C4_Witness ==
  /\ Blk /\ pc = "blk_down" /\ T("x").C = 3 /\ net.cout = 6
  /\ T("x").H = 32 /\ T("x").W = 14
  /\ Shape(T("d")) = <<T("x").B, 6, 16, 7>>

\* C5: Upsampling maps (B, C_in, H, W) to (B, C_out, 2H, 2W) for every
\* H, W >= 1; applied to the result of Downsampling on an even-sized input it
\* restores the input's height and width.
C5_UpsamplingDoubles ==
  Blk =>
    /\ err # "ConvTranspose2d.channels"
    /\ pc = "blk_up" =>
         Shape(T("y")) = <<T("x").B, net.cout, 2 * T("x").H, 2 * T("x").W>>
    /\ pc = "blk_downup" =>
         /\ Shape(T("y")) = <<T("d").B, net.cin, 2 * T("d").H, 2 * T("d").W>>
         /\ T("x").H % 2 = 0 => T("y").H = T("x").H
         /\ T("x").W % 2 = 0 => T("y").W = T("x").W

C5_Witness ==
  /\ Blk /\ pc = "blk_downup" /\ T("x").H = 32 /\ T("x").W = 16
  /\ T("d").H = 16 /\ T("d").W = 8
  /\ T("y").H = 32 /\ T("y").W = 16

\* C6: on an input whose channel count is not 4 the entry assertion fails:
\* nothing is computed (no tensor allocated, no block applied, no variable
\* bound) and nothing is returned.
C6_EntryAssertion ==
  (Fwd /\ Img.C # 4 /\ pc # "entry") =>
    /\ pc = "failed" /\ err = "assert_img"
    /\ next = 2 /\ log = <<>>
    /\ \A n \in Names : Bound(n) => n = "img"

C6_Witness ==
  Fwd /\ Img.C = 5 /\ pc = "failed" /\ err = "assert_img" /\ ~Bound("pre")

Aligned(n) == n = 1 \/ Mult16(n)

EncodersDone == Bound("pre") /\ Bound("first") /\ Bound("second") /\ Bound("third") /\ Bound("fourth")

\* C7 as amended: on a 4-channel input with H or W neither 1 nor a multiple
\* of 16, forward returns nothing: the stem and the four encoder stages
\* complete and the addition of a DecoderStage raises.  On every other
\* 4-channel input forward raises nowhere; a dimension of size 1 is broadcast
\* by the additions and comes out as 16.
C7_NoAlignmentFallbackBroadcast ==
  (Fwd /\ Img.C = 4) =>
    /\ ~(Aligned(Img.H) /\ Aligned(Img.W)) =>
         /\ pc # "done"
         /\ pc = "failed" => err = "DecoderStage.add" /\ EncodersDone
    /\ (Aligned(Img.H) /\ Aligned(Img.W)) =>
         /\ pc # "failed"
         /\ pc = "done" =>
              /\ T("result").H = (IF Img.H = 1 THEN 16 ELSE Img.H)
              /\ T("result").W = (IF Img.W = 1 THEN 16 ELSE Img.W)

C7_Witness ==
  /\ Fwd /\ Img.C = 4 /\ Img.H = 24 /\ Img.W = 16
  /\ pc = "failed" /\ err = "DecoderStage.add"
  /\ EncodersDone /\ ~Bound("de_first")

\* C7 as stated: on a 4-channel input with H or W not a multiple of 16,
\* forward returns nothing and fails at the addition of a DecoderStage.
C7_NoAlignmentFallback ==
  (Fwd /\ Img.C = 4 /\ ~(Mult16(Img.H) /\ Mult16(Img.W))) =>
    /\ pc # "done"
    /\ pc = "failed" => err = "DecoderStage.add" /\ EncodersDone

DecoderCalls == {i \in 1..Len(log) : log[i].block = "DecoderStage"}

\* The (input, skip, skip channels) decoder stage k is to receive.
Expected(owner) ==
  CASE owner = "decoder_stage1" -> <<"fourth", "third", 256>>
    [] owner = "decoder_stage2" -> <<"de_first", "second", 128>>
    [] owner = "decoder_stage3" -> <<"de_second", "first", 64>>
    [] owner = "decoder_stage4" -> <<"de_thrid", "pre", 16>>

\* C8: decoder stage 1 receives (fourth, third), stage 2 (de_first, second),
\* stage 3 (de_second, first), stage 4 (de_thrid, pre): every tensor received
\* was produced before, the skip has the declared 256/128/64/16 channels, no
\* skip tensor is received by two stages, and a forward that returns has
\* passed each of the four skip tensors to exactly one stage, at twice the
\* resolution of the stage's input when nothing is broadcast.
C8_SkipWiring ==
  Fwd =>
    /\ \A i \in DecoderCalls :
         LET e == Expected(log[i].owner) IN
           /\ Bound(e[1]) /\ Bound(e[2])
           /\ log[i].args = <<env[e[1]], env[e[2]]>>
           /\ T(e[2]).C = e[3]
           /\ (Mult16(Img.H) /\ Mult16(Img.W)) =>
                /\ T(e[2]).H = 2 * T(e[1]).H
                /\ T(e[2]).W = 2 * T(e[1]).W
    /\ \A i, j \in DecoderCalls : log[i].args[2] = log[j].args[2] => i = j
    /\ pc = "done" =>
         \A n \in {"pre", "first", "second", "third"} :
           Cardinality({i \in DecoderCalls : log[i].args[2] = env[n]}) = 1

C8_Witness ==
  /\ Fwd /\ pc = "done" /\ Cardinality(DecoderCalls) = 4
  /\ \E i \in DecoderCalls :
       log[i].owner = "decoder_stage3" /\ log[i].args = <<env["de_second"], env["first"]>>

EncoderCalls(owner) == {i \in 1..Len(log) : log[i].block = "Encoder" /\ log[i].owner = owner}

StageNum == [encoder_stage1 |-> 1, encoder_stage2 |-> 1, encoder_stage3 |-> 3, encoder_stage4 |-> 3]
StageOut == [encoder_stage1 |-> "first", encoder_stage2 |-> "second",
             encoder_stage3 |-> "third", encoder_stage4 |-> "fourth"]

\* C9 as amended: an EncoderStage with repetition count N owns one Encoder
\* object (one weight set) and applies that same object N times in a row
\* after its Downsampling.
C9_OneSharedEncoder ==
  Fwd =>
    \A s \in DOMAIN StageNum :
      /\ \A i \in EncoderCalls(s) : log[i].idx = 0
      /\ Cardinality(EncoderCalls(s)) <= StageNum[s]
      /\ Bound(StageOut[s]) =>
           {log[i].args[1] : i \in EncoderCalls(s)} = 1..StageNum[s]

C9_Witness ==
  /\ Fwd /\ Bound("third")
  /\ Cardinality(EncoderCalls("encoder_stage3")) = 3
  /\ \A i \in EncoderCalls("encoder_stage3") : log[i].idx = 0

\* C9 as stated: the N applications of an EncoderStage are of N independently
\* constructed Encoder objects, no object being applied twice.
C9_IndependentEncoders ==
  Fwd =>
    \A s \in DOMAIN StageNum :
      \A i, j \in EncoderCalls(s) : log[i].idx = log[j].idx => i = j

\* C10: no statement of a forward overwrites a tensor that existed before it:
\* the in-place operations only target tensors allocated within the same
\* block.  The image and every retained tensor stay bound and keep the
\* values they were produced with up to the end of the forward.
C10_InputsNeverOverwritten ==
  [][/\ \A i \in DOMAIN heap : i \in DOMAIN heap' /\ heap'[i] = heap[i]
     /\ \A n \in Names : Bound(n) => env'[n] = env[n]]_vars

C10_Witness ==
  /\ Fwd /\ pc = "done" /\ Img.v = -1
  /\ T("pre").v = 0 /\ T("first").v > 0

====
